---------------------------- MODULE Spec2Model ----------------------------
(***************************************************************************)
(* A model of tiling/tiling.py: the Tiling session (size, stride, bound    *)
(* source image and the fields derived from it), its lazy traversals       *)
(* get_tile_rects / get_tile_images, filter_tiles, write_tiles and         *)
(* assemble.                                                               *)
(*                                                                         *)
(* Strings are sequences of one-character strings, so that formatting a    *)
(* tile name (str, zfill, concatenation) and parsing it back (split,       *)
(* index, int) are computed the way the code computes them.                *)
(*                                                                         *)
(* An image is a record [w, h, px]: its size and its pixel buffer, a       *)
(* function from <<x, y>> to a pixel value.  The calls into PIL and numpy  *)
(* (crop, paste, transpose, new, open, mean) are modelled by what the      *)
(* library does with the arguments the code passes.                        *)
(***************************************************************************)
EXTENDS Integers, Sequences, FiniteSets, TLC

VARIABLES
    size,         \* self.size
    stride,       \* self.stride
    source,       \* self.source: None or the bound image
    source_name,  \* self.source_name (NoAttr until apply sets it)
    shape,        \* self.shape      (NoShape until apply sets it)
    disk,         \* the files of the target directory: a set of [path, img]
    ret           \* what the client holds from its last call: a generator
                  \* object and what it has yielded, a returned image, the
                  \* exception the call raised

vars == <<size, stride, source, source_name, shape, disk, ret>>

(***************************************************************************)
(* Bounds of the explored inputs.                                          *)
(***************************************************************************)
MaxDim == 3        \* image widths and heights are 0..MaxDim
MaxSize == 2       \* Tiling(size, stride): size and stride in 0..MaxSize
MaxPulls == MaxDim * MaxDim + 1   \* pulls explored on one generator

(***************************************************************************)
(* Strings.                                                                *)
(***************************************************************************)
DigitChars == <<"0", "1", "2", "3", "4", "5", "6", "7", "8", "9">>

IsDigit(c) == \E i \in 1..10 : DigitChars[i] = c

DigitVal(c) == (CHOOSE i \in 1..10 : DigitChars[i] = c) - 1

RECURSIVE StrNat(_)
StrNat(n) ==
    IF n < 10 THEN <<DigitChars[n + 1]>>
    ELSE StrNat(n \div 10) \o <<DigitChars[(n % 10) + 1]>>

\* str(left), str(top)
Str(n) == IF n < 0 THEN <<"-">> \o StrNat(0 - n) ELSE StrNat(n)

RECURSIVE Zeros(_)
Zeros(k) == IF k <= 0 THEN << >> ELSE <<"0">> \o Zeros(k - 1)

\* s.zfill(width): zeros go after a leading sign
ZFill(s, width) ==
    IF Len(s) >= width THEN s
    ELSE IF Len(s) > 0 /\ s[1] \in {"+", "-"}
         THEN <<s[1]>> \o Zeros(width - Len(s)) \o Tail(s)
         ELSE Zeros(width - Len(s)) \o s

ZFillWidth == 5

\* s.split(sep) for a one-character separator
RECURSIVE SplitFrom(_, _, _, _)
SplitFrom(s, sep, i, cur) ==
    IF i > Len(s) THEN <<cur>>
    ELSE IF s[i] = sep THEN <<cur>> \o SplitFrom(s, sep, i + 1, << >>)
         ELSE SplitFrom(s, sep, i + 1, Append(cur, s[i]))

Split(s, sep) == SplitFrom(s, sep, 1, << >>)

\* os.path.split(p)[-1]: what follows the last "/"
Basename(p) ==
    LET cuts == {i \in 1..Len(p) : p[i] = "/"}
        from == IF cuts = {} THEN 1
                ELSE (CHOOSE i \in cuts : \A j \in cuts : j <= i) + 1
    IN  SubSeq(p, from, Len(p))

\* os.path.splitext(fname)[0]: the extension starts at the last dot that
\* has a character other than a dot before it
SplitextRoot(fname) ==
    LET dots == {i \in 1..Len(fname) :
                    /\ fname[i] = "."
                    /\ \E j \in 1..(i - 1) : fname[j] # "."}
    IN  IF dots = {} THEN fname
        ELSE SubSeq(fname, 1, (CHOOSE i \in dots : \A j \in dots : j <= i) - 1)

\* list.index(tok): 0 stands for the ValueError of a missing element
Index(toks, tok) ==
    LET hits == {i \in 1..Len(toks) : toks[i] = tok}
    IN  IF hits = {} THEN 0 ELSE CHOOSE i \in hits : \A j \in hits : i <= j

\* int(tok) succeeds on an optional sign followed by digits
IsInt(tok) ==
    LET body == IF Len(tok) > 0 /\ tok[1] \in {"+", "-"} THEN Tail(tok) ELSE tok
    IN  Len(body) > 0 /\ \A i \in 1..Len(body) : IsDigit(body[i])

RECURSIVE NatVal(_)
NatVal(ds) ==
    IF Len(ds) = 0 THEN 0
    ELSE 10 * NatVal(SubSeq(ds, 1, Len(ds) - 1)) + DigitVal(ds[Len(ds)])

IntVal(tok) ==
    IF tok[1] = "-" THEN 0 - NatVal(Tail(tok))
    ELSE IF tok[1] = "+" THEN NatVal(Tail(tok))
    ELSE NatVal(tok)

(***************************************************************************)
(* Images.                                                                 *)
(***************************************************************************)
Pixels(w, h) == (0..(w - 1)) \X (0..(h - 1))

None == [w |-> -1, h |-> -1, px |-> << >>]

\* the images applied: black at the origin, white where x + y is odd, and
\* a different dark value at every other pixel
Sample(w, h) ==
    [w |-> w, h |-> h,
     px |-> [p \in Pixels(w, h) |->
                IF (p[1] + p[2]) % 2 = 1 THEN 255 ELSE p[1] + w * p[2]]]

SourceImages == {Sample(w, h) : <<w, h>> \in (0..MaxDim) \X (0..MaxDim)}

\* Image.crop(rect): the region, filled with 0 where it leaves the image
Crop(im, rect) ==
    LET cw == rect[3] - rect[1]
        ch == rect[4] - rect[2]
    IN  [w |-> cw, h |-> ch,
         px |-> [p \in Pixels(cw, ch) |->
                    LET x == rect[1] + p[1]
                        y == rect[2] + p[2]
                    IN  IF x < im.w /\ y < im.h /\ x >= 0 /\ y >= 0
                        THEN im.px[<<x, y>>] ELSE 0]]


\* numpy.asarray(image).mean() compared with a threshold: the mean is the
\* sum over the count; over an empty buffer it is nan, which compares False
PixelSum(im) ==
    LET RECURSIVE SumOver(_)
        SumOver(ps) ==
            IF ps = {} THEN 0
            ELSE LET p == CHOOSE q \in ps : TRUE
                 IN  im.px[p] + SumOver(ps \ {p})
    IN  SumOver(Pixels(im.w, im.h))

PixelCount(im) == im.w * im.h

MeanGreater(im, t) == PixelCount(im) > 0 /\ PixelSum(im) > t * PixelCount(im)

MeanLess(im, t) == PixelCount(im) > 0 /\ PixelSum(im) < t * PixelCount(im)

(***************************************************************************)
(* The session.                                                            *)
(***************************************************************************)
NoStride == -1     \* stride=None, the default of the constructor
NoAttr == <<"<unset>">>
NoShape == << >>

SizeInputs == 0..MaxSize
StrideInputs == {NoStride} \cup (0..MaxSize)

\* Tiling.__init__: the stride the session keeps
InitStride(size_in, stride_in) ==
    IF stride_in = NoStride \/ stride_in < 1 THEN size_in ELSE stride_in

\* a client's generator object: not started, suspended at a yield, finished
NoCursor == [st |-> "none", left |-> 0, top |-> 0]
NewCursor == [st |-> "new", left |-> 0, top |-> 0]

RetNone ==
    [kind |-> "none", rc |-> NoCursor, ic |-> NoCursor, lo |-> 0, hi |-> 0,
     out |-> << >>, err |-> "", img |-> None]

Raised(e) == [RetNone EXCEPT !.kind = "raised", !.err = e]

Hang == [RetNone EXCEPT !.kind = "hang"]

Init ==
    /\ \E size_in \in SizeInputs, stride_in \in StrideInputs :
          /\ size = size_in
          /\ stride = InitStride(size_in, stride_in)
    /\ source = None
    /\ source_name = NoAttr
    /\ shape = NoShape
    /\ disk = {}
    /\ ret = RetNone

\* the paths a client applies the session to, and "" for a PIL image
NoPath == << >>
SourcePaths == {<<"d", "/", "i", "m", ".", "p", "n", "g">>}

\* os.path.split(source)[-1].split('.')[0]
SourceName(path) == Split(Basename(path), ".")[1]

\* self.shape of apply
GridShape(im, sz, st) ==
    <<((im.h - sz) \div st) + 1, ((im.w - sz) \div st) + 1>>

\* self.n_tiles of apply
n_tiles == IF shape = NoShape THEN 0 ELSE shape[1] * shape[2]

\* apply(source): a path is opened by PIL (im is what the file decodes to).
\* The division by a stride of 0 raises after source and source_name are set.
\* The runs explored bind the image before write_tiles has written anything.
Apply(path, im) ==
    /\ disk = {}
    /\ source' = im
    /\ source_name' = IF path = NoPath THEN << >> ELSE SourceName(path)
    /\ IF stride = 0
       THEN /\ shape' = shape
            /\ ret' = Raised("ZeroDivisionError")
       ELSE /\ shape' = GridShape(im, size, stride)
            /\ ret' = RetNone
    /\ UNCHANGED <<size, stride, disk>>

(***************************************************************************)
(* get_tile_rects and get_tile_images: one generator body, resumed by each *)
(* pull.  Step is [res, c]: what the pull does ("yield", "stop" for        *)
(* StopIteration, "raise" for the AttributeError, "hang" when the loops    *)
(* never reach a yield or their end) and the generator afterwards.         *)
(***************************************************************************)
\* a traversal that moves down by the tile size instead of the stride
RECURSIVE ScanBySize(_, _)
ScanBySize(left, top) ==
    IF top < source.h
    THEN IF left < source.w
         THEN [res |-> "yield", c |-> [st |-> "live", left |-> left, top |-> top]]
         ELSE IF size < 1
              THEN [res |-> "hang", c |-> [st |-> "live", left |-> 0, top |-> top]]
              ELSE ScanBySize(0, top + size)
    ELSE [res |-> "stop", c |-> [st |-> "done", left |-> left, top |-> top]]

RECURSIVE Scan(_, _)
Scan(left, top) ==
    IF top < source.h
    THEN IF left < source.w
         THEN [res |-> "yield", c |-> [st |-> "live", left |-> left, top |-> top]]
         ELSE IF stride < 1
              THEN [res |-> "hang", c |-> [st |-> "live", left |-> 0, top |-> top]]
              ELSE Scan(0, top + stride)
    ELSE [res |-> "stop", c |-> [st |-> "done", left |-> left, top |-> top]]

GenNext(c) ==
    IF c.st = "new"
    THEN IF source = None
         THEN [res |-> "raise", c |-> [c EXCEPT !.st = "done"]]
         ELSE Scan(0, 0)
    ELSE IF c.st = "live" THEN Scan(c.left + stride, c.top)
    ELSE [res |-> "stop", c |-> c]

\* the tuple get_tile_rects yields at a cursor
RectAt(c) == <<c.left, c.top, c.left + size, c.top + size>>

\* the crop get_tile_images yields at a cursor
ImageAt(c) == Crop(source, <<c.left, c.top, c.left + size, c.top + size>>)

\* rects = t.get_tile_rects(): the call only creates the generator
GetTileRects ==
    /\ ret' = [RetNone EXCEPT !.kind = "rects", !.rc = NewCursor]
    /\ UNCHANGED <<size, stride, source, source_name, shape, disk>>

\* imgs = t.get_tile_images()
GetTileImages ==
    /\ ret' = [RetNone EXCEPT !.kind = "images", !.ic = NewCursor]
    /\ UNCHANGED <<size, stride, source, source_name, shape, disk>>

\* next(rects)
NextRect ==
    /\ ret.kind = "rects"
    /\ Len(ret.out) < MaxPulls
    /\ LET s == GenNext(ret.rc)
       IN  ret' = CASE s.res = "yield" ->
                        [ret EXCEPT !.rc = s.c, !.out = Append(@, RectAt(s.c)), !.err = ""]
                    [] s.res = "stop" ->
                        [ret EXCEPT !.rc = s.c, !.err = "StopIteration"]
                    [] s.res = "raise" ->
                        [ret EXCEPT !.rc = s.c, !.err = "AttributeError"]
                    [] OTHER -> Hang
    /\ UNCHANGED <<size, stride, source, source_name, shape, disk>>

\* next(imgs)
NextImage ==
    /\ ret.kind = "images"
    /\ Len(ret.out) < MaxPulls
    /\ LET s == GenNext(ret.ic)
       IN  ret' = CASE s.res = "yield" ->
                        [ret EXCEPT !.ic = s.c, !.out = Append(@, ImageAt(s.c)), !.err = ""]
                    [] s.res = "stop" ->
                        [ret EXCEPT !.ic = s.c, !.err = "StopIteration"]
                    [] s.res = "raise" ->
                        [ret EXCEPT !.ic = s.c, !.err = "AttributeError"]
                    [] OTHER -> Hang
    /\ UNCHANGED <<size, stride, source, source_name, shape, disk>>

(***************************************************************************)
(* filter_tiles: a generator over zip(get_tile_rects(), get_tile_images()) *)
(***************************************************************************)
DefaultLower == 0
DefaultUpper == 255

Thresholds == {DefaultLower, 2, DefaultUpper}

\* a test that lets a mean equal to the lower threshold pass
PassesFilterInclusive(im, lo, hi) ==
    PixelCount(im) > 0 /\ PixelSum(im) >= lo * PixelCount(im) /\ MeanLess(im, hi)

\* the test of filter_tiles on a tile image
PassesFilter(im, lo, hi) == MeanGreater(im, lo) /\ MeanLess(im, hi)

\* one pull: zip pulls the rectangle, then the image, until a pair passes.
\* With a stride of 0 a tile that fails comes back for ever.
RECURSIVE FilterScan(_, _, _, _)
FilterScan(rc, ic, lo, hi) ==
    LET r == GenNext(rc)
        i == GenNext(ic)
        stay == [rc |-> rc, ic |-> ic, item |-> << >>]
    IN  IF r.res # "yield"
        THEN [stay EXCEPT !.rc = r.c] @@ [res |-> r.res]
        ELSE IF i.res # "yield"
        THEN [stay EXCEPT !.rc = r.c, !.ic = i.c] @@ [res |-> i.res]
        ELSE IF PassesFilter(ImageAt(i.c), lo, hi)
        THEN [res |-> "yield", rc |-> r.c, ic |-> i.c,
              item |-> <<RectAt(r.c), ImageAt(i.c)>>]
        ELSE IF stride < 1
        THEN stay @@ [res |-> "hang"]
        ELSE FilterScan(r.c, i.c, lo, hi)

\* filtered = t.filter_tiles(lower_threshold, upper_threshold)
FilterTiles(lo, hi) ==
    /\ ret' = [RetNone EXCEPT !.kind = "filter", !.rc = NewCursor,
                              !.ic = NewCursor, !.lo = lo, !.hi = hi]
    /\ UNCHANGED <<size, stride, source, source_name, shape, disk>>

\* next(filtered)
NextFiltered ==
    /\ ret.kind = "filter"
    /\ Len(ret.out) < MaxPulls
    /\ LET s == FilterScan(ret.rc, ret.ic, ret.lo, ret.hi)
       IN  ret' = CASE s.res = "yield" ->
                        [ret EXCEPT !.rc = s.rc, !.ic = s.ic, !.out = Append(@, s.item)]
                    [] s.res = "stop" ->
                        [ret EXCEPT !.rc = s.rc, !.ic = s.ic, !.err = "StopIteration"]
                    [] s.res = "raise" ->
                        [ret EXCEPT !.rc = s.rc, !.ic = s.ic, !.err = "AttributeError"]
                    [] OTHER -> Hang
    /\ UNCHANGED <<size, stride, source, source_name, shape, disk>>

(***************************************************************************)
(* write_tiles                                                             *)
(***************************************************************************)
\* Image.transpose with ROTATE_90 (counter-clockwise), ROTATE_180,
\* ROTATE_270, FLIP_LEFT_RIGHT and FLIP_TOP_BOTTOM
Rotate90(im) ==
    [w |-> im.h, h |-> im.w,
     px |-> [p \in Pixels(im.h, im.w) |-> im.px[<<im.w - 1 - p[2], p[1]>>]]]

Rotate180(im) ==
    [w |-> im.w, h |-> im.h,
     px |-> [p \in Pixels(im.w, im.h) |-> im.px[<<im.w - 1 - p[1], im.h - 1 - p[2]>>]]]

Rotate270(im) ==
    [w |-> im.h, h |-> im.w,
     px |-> [p \in Pixels(im.h, im.w) |-> im.px[<<p[2], im.h - 1 - p[1]>>]]]

FlipHor(im) ==
    [w |-> im.w, h |-> im.h,
     px |-> [p \in Pixels(im.w, im.h) |-> im.px[<<im.w - 1 - p[1], p[2]>>]]]

FlipVert(im) ==
    [w |-> im.w, h |-> im.h,
     px |-> [p \in Pixels(im.w, im.h) |-> im.px[<<p[1], im.h - 1 - p[2]>>]]]

TargetDir == <<"t">>

\* os.path.join(target_dir, name + '.png')
TilePath(name) == TargetDir \o <<"/">> \o name \o <<".", "p", "n", "g">>

\* prefix+'_x_'+str(left).zfill(5)+'_y_'+str(top).zfill(5)
TileName(prefix, left, top) ==
    prefix \o <<"_", "x", "_">> \o ZFill(Str(left), ZFillWidth)
           \o <<"_", "y", "_">> \o ZFill(Str(top), ZFillWidth)

\* Image.save of each of files (<<name, image>>), in order, into d: the
\* last write to a path wins
SaveAll(d, files) ==
    LET last == {i \in 1..Len(files) :
                    \A j \in (i + 1)..Len(files) : files[j][1] # files[i][1]}
        paths == {TilePath(files[i][1]) : i \in last}
    IN  {f \in d : f.path \notin paths}
        \cup {[path |-> TilePath(files[i][1]), img |-> files[i][2]] : i \in last}

\* the files one pass of the loop of write_tiles saves, in order
TileFiles(prefix, rect, rotate, flip) ==
    LET tilename == TileName(prefix, rect[1], rect[2])
        crop == Crop(source, rect)
        rot == <<"_", "r", "o", "t", "_">>
        hor == tilename \o <<"_", "f", "l", "i", "p", "_", "h", "o", "r">>
        vert == tilename \o <<"_", "f", "l", "i", "p", "_", "v", "e", "r", "t">>
    IN  <<<<tilename, crop>>>>
        \o (IF rotate
            THEN << <<tilename \o rot \o Str(90), Rotate90(crop)>>,
                    <<tilename \o rot \o Str(180), Rotate180(crop)>>,
                    <<tilename \o rot \o Str(270), Rotate270(crop)>> >>
            ELSE << >>)
        \o (IF flip
            THEN << <<vert, FlipVert(crop)>>, <<hor, FlipHor(crop)>> >>
            ELSE << >>)
        \o (IF flip /\ rotate
            THEN << <<hor \o rot \o Str(90), Rotate90(FlipHor(crop))>>,
                    <<hor \o rot \o Str(270), Rotate270(FlipHor(crop))>> >>
            ELSE << >>)

\* list(t.get_tile_rects()) from a generator on, for a stride of 1 or more
RECURSIVE Traverse(_)
Traverse(c) ==
    LET s == GenNext(c)
    IN  IF s.res = "yield" THEN <<RectAt(s.c)>> \o Traverse(s.c) ELSE << >>

RECURSIVE Concat(_)
Concat(seqs) == IF seqs = << >> THEN << >> ELSE Head(seqs) \o Concat(Tail(seqs))

\* the loop over tiles = self.get_tile_rects(): the first pull may raise;
\* with a stride of 0 the loop never ends, saving the same files over and
\* over if it saves any
WriteLoop(d, prefix, rotate, flip) ==
    LET s == GenNext(NewCursor)
        rects == Traverse(NewCursor)
        files == Concat([i \in 1..Len(rects) |-> TileFiles(prefix, rects[i], rotate, flip)])
    IN  CASE s.res = "raise" -> [disk |-> d, ret |-> Raised("AttributeError")]
          [] s.res = "hang" -> [disk |-> d, ret |-> Hang]
          [] s.res = "yield" /\ stride < 1 ->
                [disk |-> SaveAll(d, TileFiles(prefix, RectAt(s.c), rotate, flip)),
                 ret |-> Hang]
          [] OTHER -> [disk |-> SaveAll(d, files), ret |-> RetNone]

NoPrefix == <<"<none>">>     \* filename_prefix=None
PrefixInputs == {NoPrefix, <<"x", "_", "5">>, <<"r", "o", "t">>}

\* t.write_tiles(target_dir, rotate, flip, filename_prefix), into a
\* target directory that holds nothing yet
WriteTiles(rotate, flip, filename_prefix) ==
    /\ disk = {}
    /\ IF filename_prefix = NoPrefix /\ source_name = NoAttr
       THEN /\ ret' = Raised("AttributeError")
            /\ disk' = disk
       ELSE LET prefix == IF filename_prefix = NoPrefix THEN source_name
                          ELSE filename_prefix
                done == WriteLoop(disk, prefix, rotate, flip)
            IN  /\ ret' = done.ret
                /\ disk' = done.disk
    /\ UNCHANGED <<size, stride, source, source_name, shape>>

(***************************************************************************)
(* assemble                                                                *)
(***************************************************************************)
\* the elements of tiles: a str, a tuple of length 2, anything else
TileStr(path) == [type |-> "str", name |-> path, rect |-> << >>, img |-> None]
TilePair(rect, im) == [type |-> "tuple", name |-> << >>, rect |-> rect, img |-> im]
TileImage(im) == [type |-> "image", name |-> << >>, rect |-> << >>, img |-> im]

\* the modes Image.new accepts ("RGB" is the default of assemble);
\* Image.open accepts no mode but "r"
ImageModes == {"RGB", "L"}

\* Image.new(mode, size)
NewImage(w, h) == [w |-> w, h |-> h, px |-> [p \in Pixels(w, h) |-> 0]]

\* the file name of a str tile, up to the try block: "skip" for continue,
\* "error" for the ValueError, "ok" with x and y
ParseTileName(tile) ==
    LET fname == SplitextRoot(Basename(tile))
        fnamesplit == Split(fname, "_")
        has(tok) == \E i \in 1..Len(fnamesplit) : fnamesplit[i] = tok
        x_ind == Index(fnamesplit, <<"x">>)
        y_ind == Index(fnamesplit, <<"y">>)
        bad == [res |-> "error", x |-> 0, y |-> 0]
    IN  IF has(<<"r", "o", "t">>) \/ has(<<"f", "l", "i", "p">>)
        THEN [res |-> "skip", x |-> 0, y |-> 0]
        ELSE IF x_ind = 0 \/ y_ind = 0 THEN bad
        ELSE IF x_ind + 1 > Len(fnamesplit) \/ ~IsInt(fnamesplit[x_ind + 1]) THEN bad
        ELSE IF y_ind + 1 > Len(fnamesplit) \/ ~IsInt(fnamesplit[y_ind + 1]) THEN bad
        ELSE [res |-> "ok", x |-> IntVal(fnamesplit[x_ind + 1]),
              y |-> IntVal(fnamesplit[y_ind + 1])]

\* Image.open(tile, mode=mode): PIL raises ValueError("bad mode") for every
\* mode but "r", before it looks at the file
ImageOpen(d, tile, mode) ==
    IF mode # "r" THEN [err |-> "ValueError: bad mode", img |-> None]
    ELSE IF \E f \in d : f.path = tile
         THEN [err |-> "", img |-> (CHOOSE f \in d : f.path = tile).img]
         ELSE [err |-> "FileNotFoundError", img |-> None]

\* img.paste(tile_img, rect): the image must have the size of the box; what
\* falls outside the canvas is dropped
PasteFits(im, rect) == im.w = rect[3] - rect[1] /\ im.h = rect[4] - rect[2]

Paste(canvas, im, rect) ==
    [canvas EXCEPT !.px =
        [p \in Pixels(canvas.w, canvas.h) |->
            IF /\ rect[1] <= p[1] /\ p[1] < rect[3]
               /\ rect[2] <= p[2] /\ p[2] < rect[4]
            THEN im.px[<<p[1] - rect[1], p[2] - rect[2]>>]
            ELSE canvas.px[p]]]

\* the loop of assemble from tiles[i] on: the image returned with the
\* pastes made (out), or the exception that ends the call
RECURSIVE AssembleLoop(_, _, _, _, _, _)
AssembleLoop(tiles, i, mode, img, rects, pasted) ==
    LET tile == tiles[i]
        raise(e) == [Raised(e) EXCEPT !.out = pasted]
        paste(im, rect) ==
            IF PasteFits(im, rect)
            THEN AssembleLoop(tiles, i + 1, mode, Paste(img, im, rect), rects,
                              Append(pasted, <<rect, im>>))
            ELSE raise("ValueError: images do not match")
    IN  IF i > Len(tiles)
        THEN [RetNone EXCEPT !.kind = "image", !.img = img, !.out = pasted]
        ELSE IF tile.type = "str"
        THEN LET parsed == ParseTileName(tile.name)
                 opened == ImageOpen(disk, tile.name, mode)
             IN  CASE parsed.res = "skip" ->
                        AssembleLoop(tiles, i + 1, mode, img, rects, pasted)
                   [] parsed.res = "error" -> raise("ValueError: filename")
                   [] opened.err # "" -> raise(opened.err)
                   [] OTHER ->
                        paste(opened.img,
                              <<parsed.x, parsed.y, parsed.x + size, parsed.y + size>>)
        ELSE IF tile.type = "tuple"
        THEN paste(tile.img, tile.rect)
        ELSE LET s == GenNext(rects)
             IN  CASE s.res = "stop" -> raise("StopIteration")
                   [] s.res = "hang" -> Hang
                   [] s.res = "raise" -> raise("AttributeError")
                   [] OTHER ->
                        IF PasteFits(tile.img, RectAt(s.c))
                        THEN AssembleLoop(tiles, i + 1, mode,
                                          Paste(img, tile.img, RectAt(s.c)), s.c,
                                          Append(pasted, <<RectAt(s.c), tile.img>>))
                        ELSE raise("ValueError: images do not match")

\* what t.assemble(tiles, mode) returns or raises: Image.new needs the
\* size of the source and a mode it knows
AssembleCall(tiles, mode) ==
    IF source = None THEN Raised("AttributeError")
    ELSE IF mode \notin ImageModes THEN Raised("ValueError: mode")
    ELSE AssembleLoop(tiles, 1, mode, NewImage(source.w, source.h), NewCursor, << >>)

\* t.assemble(tiles, mode)
Assemble(tiles, mode) ==
    /\ ret' = AssembleCall(tiles, mode)
    /\ UNCHANGED <<size, stride, source, source_name, shape, disk>>

(***************************************************************************)
(* The calls a client makes.                                               *)
(***************************************************************************)
\* list(t.get_tile_rects()) on a bound session with a stride of 1 or more
TileRectsAll == IF source = None \/ stride < 1 THEN << >> ELSE Traverse(NewCursor)

Range(seq) == {seq[i] : i \in 1..Len(seq)}

Reverse(seq) == [i \in 1..Len(seq) |-> seq[Len(seq) + 1 - i]]

RECURSIVE SetToSeq(_)
SetToSeq(S) ==
    IF S = {} THEN << >>
    ELSE LET e == CHOOSE x \in S : TRUE IN <<e>> \o SetToSeq(S \ {e})

\* file names that write_tiles did not write: no x/y tokens, an x token
\* followed by no integer, a marker with no x/y tokens
CraftedNames ==
    { <<"t", "/", "f", "o", "o", ".", "p", "n", "g">>,
      <<"t", "/", "x", "_", "y", "_", "1", ".", "p", "n", "g">>,
      <<"t", "/", "r", "o", "t", ".", "p", "n", "g">> }

DiskTiles == SetToSeq({TileStr(f.path) : f \in disk})

BareTiles == [i \in 1..Len(TileRectsAll) |-> TileImage(Crop(source, TileRectsAll[i]))]

PairTiles == [i \in 1..Len(TileRectsAll) |->
                 TilePair(TileRectsAll[i], Crop(source, TileRectsAll[i]))]

First(seq) == IF seq = << >> THEN {} ELSE {seq[1]}

\* what the free-form inputs of assemble are made of: the crafted names, a
\* written file, a tile image, a (rect, image) tuple that fits and one
\* that does not
TileInputs ==
    {TileStr(n) : n \in CraftedNames}
    \cup First(DiskTiles) \cup First(BareTiles) \cup First(PairTiles)
    \cup (IF source = None THEN {} ELSE {TilePair(<<0, 0, size, size>>, source)})

SkippedName == CHOOSE n \in CraftedNames : ParseTileName(n).res = "skip"

BadName == CHOOSE n \in CraftedNames : ParseTileName(n).res = "error"

\* the lists of tiles a client assembles: none, one of each kind; the
\* written files in two orders; the (rect, image) tuples in two orders;
\* the tile images in the order of the traversal, also with one more than
\* there are rectangles, and mixed with tuples and with file names that
\* are skipped or malformed
AssembleInputs ==
    {<< >>} \cup {<<t>> : t \in TileInputs}
    \cup {DiskTiles, Reverse(DiskTiles), BareTiles, PairTiles, Reverse(PairTiles),
          <<TileStr(SkippedName)>> \o PairTiles,
          PairTiles \o <<TileStr(BadName)>>}
    \cup (IF BareTiles = << >> THEN {}
          ELSE {BareTiles \o <<BareTiles[1]>>,
                <<PairTiles[Len(PairTiles)]>> \o BareTiles,
                <<BareTiles[1], TileStr(SkippedName)>> \o Tail(BareTiles)})

\* assemble(tiles) with the default mode, and assemble(tiles, "r")
AssembleCalls ==
    (AssembleInputs \X {"RGB"}) \cup ({<< >>, DiskTiles} \X {"r"})

ApplyAny == \E path \in SourcePaths \cup {NoPath}, im \in SourceImages : Apply(path, im)

FilterAny == \E lo \in Thresholds, hi \in Thresholds : FilterTiles(lo, hi)

Next ==
    \/ ApplyAny
    \/ GetTileRects
    \/ GetTileImages
    \/ NextRect
    \/ NextImage
    \/ FilterAny
    \/ NextFiltered

Spec == Init /\ [][Next]_vars

WriteAny ==
    \E rotate \in BOOLEAN, flip \in BOOLEAN, prefix \in PrefixInputs :
        WriteTiles(rotate, flip, prefix)

AssembleAny == \E call \in AssembleCalls : Assemble(call[1], call[2])

NextAsm ==
    \/ ApplyAny
    \/ WriteAny
    \/ AssembleAny

AsmSpec == Init /\ [][NextAsm]_vars

(***************************************************************************)
(* The grid of the specification: rows and cols by the floor formula, and  *)
(* the rectangle of row r and column c, row by row.                        *)
(***************************************************************************)
GridRows == ((source.h - size) \div stride) + 1

GridCols == ((source.w - size) \div stride) + 1

GridCount == IF GridRows <= 0 \/ GridCols <= 0 THEN 0 ELSE GridRows * GridCols

CanonicalRects ==
    [k \in 1..GridCount |->
        LET r == (k - 1) \div GridCols
            c == (k - 1) % GridCols
        IN  <<c * stride, r * stride, c * stride + size, r * stride + size>>]

Bound == source # None

(***************************************************************************)
(* C1: for tileSize >= 1 and stride >= 1, the rectangles get_tile_rects    *)
(* yields lie inside the image, and the whole sequence is the canonical    *)
(* grid: rows*cols rectangles (c*stride, r*stride, c*stride + tileSize,    *)
(* r*stride + tileSize), row by row.                                       *)
(***************************************************************************)
C1_CanonicalGrid ==
    (ret.kind = "rects" /\ Bound /\ size >= 1 /\ stride >= 1) =>
        /\ \A i \in 1..Len(ret.out) :
              ret.out[i][3] <= source.w /\ ret.out[i][4] <= source.h
        /\ ret.err = "StopIteration" => ret.out = CanonicalRects

(***************************************************************************)
(* C3: on an image narrower or lower than the tile, apply does not fail,   *)
(* the shape count of that dimension is not positive, and get_tile_rects   *)
(* and get_tile_images yield nothing.                                      *)
(***************************************************************************)
C3_SmallImageEmpty ==
    (Bound /\ (source.w < size \/ source.h < size)) =>
        /\ shape # NoShape
        /\ source.h < size => shape[1] <= 0
        /\ source.w < size => shape[2] <= 0
        /\ ret.kind \in {"rects", "images"} => ret.out = << >>

(***************************************************************************)
(* C4: on a session apply was never called on, get_tile_rects() and        *)
(* get_tile_images() fail at the call: the client gets an exception, not   *)
(* a generator.                                                            *)
(***************************************************************************)
C4_FailsAtCall ==
    ~Bound => ret.kind \notin {"rects", "images"}

(***************************************************************************)
(* C6: the first rectangle of get_tile_rects is at (0, 0), every           *)
(* rectangle is tileSize wide and high, and each rectangle follows the one *)
(* before it either in its row, stride further right, or at the left of    *)
(* the next row, stride further down.                                      *)
(***************************************************************************)
SameRowStep(a, b) == b[2] = a[2] /\ b[1] = a[1] + stride

NewRowStep(a, b) == b[2] = a[2] + stride /\ b[1] = 0

C6_RowMajor ==
    ret.kind = "rects" =>
        /\ Len(ret.out) >= 1 => ret.out[1][1] = 0 /\ ret.out[1][2] = 0
        /\ \A i \in 1..Len(ret.out) :
              /\ ret.out[i][3] = ret.out[i][1] + size
              /\ ret.out[i][4] = ret.out[i][2] + size
        /\ \A i \in 1..(Len(ret.out) - 1) :
              SameRowStep(ret.out[i], ret.out[i + 1]) \/ NewRowStep(ret.out[i], ret.out[i + 1])

\* a finished traversal that went along a row and on to the next row, with
\* a stride that is not the tile size
C6_Witness ==
    /\ ret.kind = "rects"
    /\ ret.err = "StopIteration"
    /\ stride >= 1
    /\ stride # size
    /\ \E i \in 1..(Len(ret.out) - 1) : SameRowStep(ret.out[i], ret.out[i + 1])
    /\ \E i \in 1..(Len(ret.out) - 1) : NewRowStep(ret.out[i], ret.out[i + 1])

(***************************************************************************)
(* C8: after construction tileSize >= 1 and stride >= 1, and no traversal  *)
(* runs for ever.                                                          *)
(***************************************************************************)
C8_PositiveAndFinite ==
    /\ size >= 1
    /\ stride >= 1
    /\ ret.kind # "hang"

(***************************************************************************)
(* C10: filter_tiles(lower, upper) yields, in the order of the traversal,  *)
(* exactly the pairs (rect, crop of the source at rect) whose mean pixel   *)
(* value is above lower and below upper; a mean equal to a threshold is    *)
(* left out.                                                               *)
(***************************************************************************)
StrictlyBetween(pair, lo, hi) ==
    LET n == PixelCount(pair[2])
        total == PixelSum(pair[2])
    IN  n > 0 /\ lo * n < total /\ total < hi * n /\ total # lo * n /\ total # hi * n

AllPairs == [i \in 1..Len(TileRectsAll) |-> <<TileRectsAll[i], Crop(source, TileRectsAll[i])>>]

IsPrefix(a, b) == Len(a) <= Len(b) /\ \A i \in 1..Len(a) : a[i] = b[i]

C10_FilterExact ==
    ret.kind = "filter" =>
        LET Keep(pair) == StrictlyBetween(pair, ret.lo, ret.hi)
            expected == SelectSeq(AllPairs, Keep)
        IN  IF Bound /\ stride >= 1
            THEN /\ IsPrefix(ret.out, expected)
                 /\ ret.err = "StopIteration" => ret.out = expected
            ELSE \* no source, or tiles of size 0 that have no mean
                 ret.out = << >>

\* a finished filter that kept a tile and left out one whose mean is the
\* lower threshold and one whose mean is the upper threshold
C10_Witness ==
    /\ ret.kind = "filter"
    /\ Bound
    /\ stride >= 1
    /\ ret.err = "StopIteration"
    /\ Len(ret.out) >= 1
    /\ \E i \in 1..Len(AllPairs) :
          PixelCount(AllPairs[i][2]) > 0
          /\ PixelSum(AllPairs[i][2]) = ret.lo * PixelCount(AllPairs[i][2])
    /\ \E i \in 1..Len(AllPairs) :
          PixelCount(AllPairs[i][2]) > 0
          /\ PixelSum(AllPairs[i][2]) = ret.hi * PixelCount(AllPairs[i][2])

(***************************************************************************)
(* The files write_tiles leaves for the bound image.                       *)
(***************************************************************************)
OnDisk(path) == \E f \in disk : f.path = path

BasePath(prefix, rect) == TilePath(TileName(prefix, rect[1], rect[2]))

Rot90Path(prefix, rect) ==
    TilePath(TileName(prefix, rect[1], rect[2]) \o <<"_", "r", "o", "t", "_", "9", "0">>)

TileBox(rect) == <<rect[1], rect[2], rect[1] + size, rect[2] + size>>

(***************************************************************************)
(* C2: with tileSize = stride = S on an image whose width and height are   *)
(* multiples of S, assembling the file names write_tiles wrote (no rotate, *)
(* no flip, the default prefix), in either order, returns an image equal   *)
(* to the source.                                                          *)
(***************************************************************************)
C2_RoundTrip ==
    (/\ Bound /\ size >= 1 /\ stride = size
     /\ source.w % size = 0 /\ source.h % size = 0
     /\ disk # {}
     /\ disk = WriteLoop({}, source_name, FALSE, FALSE).disk) =>
        \A tiles \in {DiskTiles, Reverse(DiskTiles)} :
            /\ AssembleCall(tiles, "RGB").kind = "image"
            /\ AssembleCall(tiles, "RGB").img = source

(***************************************************************************)
(* C5: the k-th bare image of the input of assemble is pasted at the k-th  *)
(* rectangle of the canonical grid, also behind a (rect, image) tuple or a *)
(* skipped file name, and the call fails at the first bare image beyond    *)
(* the rows*cols rectangles of the grid.                                   *)
(***************************************************************************)
BareImages(n) == [k \in 1..n |-> TileImage(Crop(source, <<0, 0, size, size>>))]

C5_BareCursor ==
    (Bound /\ size >= 1 /\ stride >= 1) =>
        \A n \in 0..(GridCount + 1) :
            \A lead \in {<< >>, <<TileStr(SkippedName)>>} :
                LET r == AssembleCall(lead \o BareImages(n), "RGB")
                IN  IF n <= GridCount
                    THEN /\ r.kind = "image"
                         /\ Len(r.out) = n
                         /\ \A k \in 1..n : r.out[k][1] = CanonicalRects[k]
                    ELSE /\ r.kind = "raised"
                         /\ r.err = "StopIteration"
                         /\ Len(r.out) = GridCount

(***************************************************************************)
(* C7: for every prefix, the file name write_tiles gives the tile at       *)
(* (left, top) is parsed by assemble to that left and top.                 *)
(***************************************************************************)
C7_NameRecovered ==
    Bound =>
        \A prefix \in {source_name} \cup (PrefixInputs \ {NoPrefix}) :
            \A i \in 1..Len(TileRectsAll) :
                LET rect == TileRectsAll[i]
                    parsed == ParseTileName(BasePath(prefix, rect))
                IN  OnDisk(BasePath(prefix, rect)) =>
                        parsed.res = "ok" /\ parsed.x = rect[1] /\ parsed.y = rect[2]

(***************************************************************************)
(* C9: a file name with a rot or flip token is skipped without an error    *)
(* and the tiles after it are processed; a base tile name followed by its  *)
(* _rot_90 derivative pastes the base tile only; a name without the x/y    *)
(* tokens and no marker ends the call with the ValueError.                 *)
(***************************************************************************)
C9_SkipAndParseError ==
    Bound =>
        /\ AssembleCall(<<TileStr(SkippedName)>>, "RGB").kind = "image"
        /\ AssembleCall(<<TileStr(SkippedName)>>, "RGB").out = << >>
        /\ AssembleCall(<<TileStr(SkippedName)>> \o PairTiles, "RGB")
              = AssembleCall(PairTiles, "RGB")
        /\ AssembleCall(PairTiles \o <<TileStr(BadName)>>, "RGB").err = "ValueError: filename"
        /\ \A i \in 1..Len(TileRectsAll) :
              LET rect == TileRectsAll[i]
                  base == BasePath(source_name, rect)
                  rot == Rot90Path(source_name, rect)
                  r == AssembleCall(<<TileStr(base), TileStr(rot)>>, "RGB")
              IN  (OnDisk(base) /\ OnDisk(rot)) =>
                      /\ r.kind = "image"
                      /\ Len(r.out) = 1
                      /\ r.out[1][1] = TileBox(rect)

=============================================================================
